---- MODULE Spec2Model ----
(***************************************************************************)
(* Movie-poster-bot: the MovieBot handlers of telegram_bot.py and Bot.py,  *)
(* the TMDB catalog client get_movies, the message formatter and the two   *)
(* entry points (Bot.py main, app.py), as a state machine.  One inbound    *)
(* update is dispatched to its handler; every await of the handler (a call *)
(* to the messaging platform or to the catalog) is one step whose outcome  *)
(* the environment chooses.                                                *)
(*                                                                         *)
(* Strings stand for themselves, except the non-ASCII characters of the    *)
(* message templates, which are written as their code points in braces.    *)
(***************************************************************************)
EXTENDS Integers, Sequences, FiniteSets, TLC

VARIABLES
    update,     \* the inbound update being handled
    handler,    \* the coroutine currently running for it
    pc,         \* its position
    out,        \* calls made to the messaging platform for this update, in order
    requests,   \* HTTP requests made to the catalog for this update, in order
    data,       \* what get_movies returned
    movies,     \* the records selected for replying
    idx,        \* loop position in movies (1-based)
    call,       \* a direct call of get_movies or of format_movie_message
    proc,       \* the process: entry point, implementation, credentials, state
    formatted,  \* what a direct call of format_movie_message returned
    message_id  \* Bot.py only: the message_id send_latest_movies keeps

vars == <<update, handler, pc, out, requests, data, movies, idx, call,
          proc, formatted, message_id>>

(***************************************************************************)
(* Bounds of the model                                                     *)
(***************************************************************************)
\* longest results list the catalog returns
MaxResults == 8
\* most argument words after /search
MaxArgs == 2

(***************************************************************************)
(* Configuration (MovieBot.__init__)                                       *)
(***************************************************************************)
tmdb_base_url == "https://api.themoviedb.org/3"
image_base_url == "https://image.tmdb.org/t/p/w500"
\* the value of the TMDB_API_KEY environment variable
tmdb_api_key == "tmdb-credential"

\* The two MovieBot classes: telegram_bot.py (run by app.py) and Bot.py (run
\* by its own main).
Implementations == {"telegram_bot", "Bot"}

\* The non-ASCII characters of the string literals, as the code points each
\* file holds.  Bot.py holds the UTF-8 bytes of each emoji read as Mac Roman.
Glyphs(im) ==
    IF im = "Bot"
    THEN [clapper  |-> "{U+F8FF,U+FC,U+E9,U+A8}",
          bullet   |-> "{U+201A,U+C4,U+A2}",
          calendar |-> "{U+F8FF,U+FC,U+EC,U+D6}",
          star     |-> "{U+201A,U+2260,U+EA}",
          fire     |-> "{U+F8FF,U+FC,U+EE,U+2022}",
          book     |-> "{U+F8FF,U+FC,U+EC,U+F1}",
          cross    |-> "{U+201A,U+F9,U+E5}",
          robot    |-> "{U+F8FF,U+FC,U+A7,U+F1}"]
    ELSE [clapper  |-> "{U+1F3AC}",
          bullet   |-> "{U+2022}",
          calendar |-> "{U+1F4C5}",
          star     |-> "{U+2B50}",
          fire     |-> "{U+1F525}",
          book     |-> "{U+1F4D6}",
          cross    |-> "{U+274C}",
          robot    |-> "{U+1F916}"]

\* JSON null / Python None as a field value
Null == "<None>"

\* Python truthiness of a string-or-None value
Truthy(v) == v # Null /\ v # ""

\* dict.get(k, default)
Get(d, k, default) == IF k \in DOMAIN d THEN d[k] ELSE default

\* dict.update: the entries of p replace those of d
DictUpdate(d, p) ==
    [k \in DOMAIN d \cup DOMAIN p |-> IF k \in DOMAIN p THEN p[k] ELSE d[k]]

Min(a, b) == IF a < b THEN a ELSE b

(***************************************************************************)
(* Inbound updates                                                         *)
(***************************************************************************)
Chats == {101, 102}
Words == {"Dune", "Two"}
Commands == {"start", "latest", "trending", "upcoming", "search", "help"}
\* callback_data of the four buttons of the welcome keyboard, and a stray one
Keyboard == <<"latest", "trending", "upcoming", "search">>
CallbackData == {"latest", "trending", "upcoming", "search", "stale"}

ArgLists == UNION {[1..n -> Words] : n \in 0..MaxArgs}

Updates ==
    {[kind |-> "command", name |-> c, args |-> a, chat |-> ch] :
        c \in Commands \ {"search"}, a \in {<<>>}, ch \in Chats}
    \cup {[kind |-> "command", name |-> "search", args |-> a, chat |-> ch] :
        a \in ArgLists, ch \in Chats}
    \cup {[kind |-> "callback", name |-> d, args |-> <<>>, chat |-> ch] :
        d \in CallbackData, ch \in Chats}

\* update.callback_query is set exactly for a button tap
HasCallbackQuery(u) == u.kind = "callback"

(***************************************************************************)
(* The catalog (environment) and the catalog client get_movies             *)
(***************************************************************************)
Title(i) == "Movie " \o ToString(i)

\* what the catalog may put in poster_path: a path, or null
PosterChoices == {"/abc.jpg", Null}

\* The i-th movie object of a catalog response.  Which optional fields it
\* carries varies with i, so that every default of the formatter is used.
CatalogMovie(i, poster) ==
    [title |-> Title(i), vote_average |-> "7.5"]
    @@ (IF i % 2 = 0 THEN <<>> ELSE [popularity |-> "88.1"])
    @@ (IF i % 3 = 0 THEN <<>> ELSE [overview |-> "Overview of " \o Title(i)])
    @@ (IF i % 4 = 0 THEN <<>> ELSE [release_date |-> "2024-03-01"])
    @@ (IF i % 5 = 0 /\ poster = Null THEN <<>> ELSE [poster_path |-> poster])

ResultLists ==
    UNION {{[i \in 1..n |-> CatalogMovie(i, ps[i])] : ps \in [1..n -> PosterChoices]} :
             n \in 0..MaxResults}

\* decoded JSON bodies: an empty object, an error object without "results",
\* and an object with a results list
JsonBodies ==
    {<<>>, [status_message |-> "Invalid API key", success |-> "false"]}
    \cup {[results |-> rs] : rs \in ResultLists}

\* what requests.get / raise_for_status / response.json() can do:
\*   "error"     a RequestException (transport failure or non-2xx status)
\*   "malformed" a 2xx response whose body is not JSON
\*   "json"      a 2xx response with a decoded body
Responses ==
    {[kind |-> "error"], [kind |-> "malformed"]}
    \cup {[kind |-> "json", body |-> b] : b \in JsonBodies}

\* `data` before get_movies has returned
Unset == [unset |-> TRUE]

None == [none |-> TRUE]
Some(d) == [none |-> FALSE, json |-> d]

default_params == [api_key |-> tmdb_api_key, language |-> "en-US"]

\* `if params:` is false for None and for an empty dict; None is passed as <<>>.
\* the query parameters get_movies sends
get_movies_params(params) ==
    IF DOMAIN params # {} THEN DictUpdate(default_params, params) ELSE default_params

\* the HTTP request get_movies issues
get_movies_request(endpoint, params) ==
    [url |-> tmdb_base_url \o "/" \o endpoint, params |-> get_movies_params(params)]

\* What get_movies hands back for a response, as a set of outcomes.  "raise"
\* is an exception leaving get_movies.  response.json() on a non-JSON body
\* raises requests.exceptions.JSONDecodeError, a RequestException, in
\* requests >= 2.27 and a plain ValueError before: either can happen.
get_movies_outcomes(resp) ==
    CASE resp.kind = "error"     -> {[raise |-> FALSE, value |-> None]}
      [] resp.kind = "malformed" -> {[raise |-> FALSE, value |-> None],
                                     [raise |-> TRUE, value |-> None]}
      [] resp.kind = "json"      -> {[raise |-> FALSE, value |-> Some(resp.body)]}

(***************************************************************************)
(* The formatter                                                           *)
(***************************************************************************)
OverviewLimit == 400

\* len(None): an overview that is present but null raises TypeError
format_raises(movie) == "overview" \in DOMAIN movie /\ movie.overview = Null

\* the overview as rendered: default, then truncation
format_overview_m(movie) ==
    LET overview == Get(movie, "overview", "No description available.")
    IN  IF Len(overview) >= OverviewLimit
        THEN SubSeq(overview, 1, OverviewLimit) \o "..."
        ELSE overview

format_overview(movie) ==
    LET overview == Get(movie, "overview", "No description available.")
    IN  IF Len(overview) > OverviewLimit
        THEN SubSeq(overview, 1, OverviewLimit) \o "..."
        ELSE overview

\* the message template of implementation im
format_message_of(im, movie) ==
    LET g == Glyphs(im)
    IN  "\n" \o g.clapper \o " <b>" \o Get(movie, "title", "N/A") \o "</b>\n\n"
        \o g.calendar \o " <b>Release Date:</b> " \o Get(movie, "release_date", "TBA") \o "\n"
        \o g.star \o " <b>Rating:</b> " \o Get(movie, "vote_average", "N/A") \o "/10\n"
        \o g.fire \o " <b>Popularity:</b> " \o Get(movie, "popularity", "N/A") \o "\n\n"
        \o g.book \o " <b>Description:</b>\n" \o format_overview(movie) \o "\n        "

format_message(movie) == format_message_of(proc.impl, movie)

\* the poster URL, or Null
format_poster_url(movie) ==
    LET poster_path == Get(movie, "poster_path", Null)
    IN  IF Truthy(poster_path) THEN image_base_url \o poster_path ELSE Null

format_movie_message(movie) ==
    [message |-> format_message(movie), poster_url |-> format_poster_url(movie)]

(***************************************************************************)
(* Calls to the messaging platform.  Each is recorded in `out` with its    *)
(* outcome: ok = FALSE is the call raising (TelegramError, NetworkError).  *)
(***************************************************************************)
PlatformCall(op, chat, text, photo, parse_mode, markup, ok) ==
    [op |-> op, chat |-> chat, text |-> text, photo |-> photo,
     parse_mode |-> parse_mode, markup |-> markup, ok |-> ok]

\* query.answer()
answer(chat, ok) == PlatformCall("answer", chat, "", Null, "", <<>>, ok)
\* context.bot.send_chat_action(chat_id, action='typing')
send_chat_action(chat, ok) == PlatformCall("send_chat_action", chat, "typing", Null, "", <<>>, ok)
\* context.bot.send_message / message.reply_text
send_message(chat, text, parse_mode, markup, ok) ==
    PlatformCall("send_message", chat, text, Null, parse_mode, markup, ok)
\* context.bot.send_photo / message.reply_photo
send_photo(chat, photo, caption, ok) ==
    PlatformCall("send_photo", chat, caption, photo, "HTML", <<>>, ok)

first_name == "Ann"

welcome_text_of(im) ==
    LET g == Glyphs(im)
    IN  "\n" \o g.clapper \o " Welcome to Movie Updates Bot, " \o first_name \o "!\n\n"
        \o "I'll keep you updated with the latest movie information including:\n"
        \o g.bullet \o " New Releases\n" \o g.bullet \o " Ratings & Reviews\n"
        \o g.bullet \o " Release Dates\n" \o g.bullet \o " Movie Descriptions\n"
        \o g.bullet \o " And much more!\n\n"
        \o "Available Commands:\n/start - Show this welcome message\n"
        \o "/latest - Get latest movie updates\n/trending - Trending movies this week\n"
        \o "/upcoming - Upcoming movies\n/search <movie_name> - Search for a specific movie\n"
        \o "        "

welcome_text == welcome_text_of(proc.impl)

help_text_of(im) ==
    LET g == Glyphs(im)
    IN  "\n" \o g.robot \o " <b>Movie Bot Help</b>\n\n<b>Commands:</b>\n"
        \o "/start - Start the bot and see main menu\n/latest - Get latest movie releases\n"
        \o "/trending - See trending movies this week\n/upcoming - Check upcoming movies\n"
        \o "/search <movie_name> - Search for a specific movie\n/help - Show this help message\n\n"
        \o "<b>Features:</b>\n"
        \o g.bullet \o " Latest movie updates\n" \o g.bullet \o " Ratings and reviews\n"
        \o g.bullet \o " Release dates\n" \o g.bullet \o " Movie descriptions\n"
        \o g.bullet \o " High-quality posters\n\n"
        \o "Just click the buttons or use commands to explore!\n        "

help_text == help_text_of(proc.impl)

error_text_of(im) ==
    Glyphs(im).cross \o " Sorry, I couldn't fetch movie data at the moment. Please try again later."

error_text == error_text_of(proc.impl)

search_prompt_text == "Please provide a movie name. Example: /search Avengers"

search_usage_text == "Use the command: /search <movie_name>"

not_found_text(movie_name) == "No movies found for '" \o movie_name \o "'"

\* " ".join(words)
RECURSIVE Join(_)
Join(words) ==
    IF words = <<>> THEN ""
    ELSE IF Len(words) = 1 THEN words[1]
    ELSE words[1] \o " " \o Join(Tail(words))

(***************************************************************************)
(* Dispatch                                                                *)
(***************************************************************************)
ListHandlers == {"send_latest_movies", "send_trending_movies", "send_upcoming_movies"}

\* the handler setup_handlers registers for an update
setup_handlers(u) ==
    IF u.kind = "callback" THEN "button_handler"
    ELSE CASE u.name = "start"    -> "start"
           [] u.name = "latest"   -> "send_latest_movies"
           [] u.name = "trending" -> "send_trending_movies"
           [] u.name = "upcoming" -> "send_upcoming_movies"
           [] u.name = "search"   -> "search_movie"
           [] u.name = "help"     -> "help_command"

\* the endpoint and the caller's params of each listing handler
Endpoint(h) ==
    CASE h = "send_latest_movies"   -> "movie/now_playing"
      [] h = "send_trending_movies" -> "trending/movie/week"
      [] h = "send_upcoming_movies" -> "movie/upcoming"
      [] h = "search_movie"         -> "search/movie"

Params(h, u) ==
    CASE h = "send_latest_movies"   -> [page |-> "1"]
      [] h = "send_trending_movies" -> <<>>
      [] h = "send_upcoming_movies" -> <<>>
      [] h = "search_movie"         -> [query |-> Join(u.args)]

\* `not data or 'results' not in data` (an empty dict is falsy)
fetch_failed_m(d) == d.none

fetch_failed(d) == d.none \/ DOMAIN d.json = {} \/ "results" \notin DOMAIN d.json

\* `not data or 'results' not in data or not data['results']`
search_failed(d) ==
    d.none \/ DOMAIN d.json = {} \/ "results" \notin DOMAIN d.json \/ d.json.results = <<>>

\* data['results'][:5]
select_movies_m(results) == SubSeq(results, 1, Min(6, Len(results)))

select_movies(results) == SubSeq(results, 1, Min(5, Len(results)))

\* `not context.args`
no_args_m(args) == FALSE

no_args(args) == args = <<>>

\* data['results'][0]
first_result_m(results) == results[Len(results)]

first_result(results) == results[1]

\* where a handler stands once it has raised or returned
Finish(ok) == IF ok THEN "done" ELSE "raised"

\* the for loop: the next record, or the end of the handler
LoopPc(ms, i) == IF i > Len(ms) THEN "done" ELSE "loop"

(***************************************************************************)
(* The state machine                                                       *)
(***************************************************************************)
NoUpdate == [kind |-> "none", name |-> "", args |-> <<>>, chat |-> 0]
NoCall == [endpoint |-> "", params |-> <<>>]
NoFormat == [message |-> "", poster_url |-> Null]

\* A process whose Application is running and hands updates to the handlers
\* of implementation im.
Dispatching(im) ==
    [entry |-> "application", impl |-> im, BOT_TOKEN |-> "bot-token",
     TMDB_API_KEY |-> tmdb_api_key, state |-> "dispatching", response |-> ""]

\* the message the inline keyboard hangs on
MessageId(u) == u.chat + 1000

Init ==
    /\ update = NoUpdate
    /\ handler = ""
    /\ pc = "idle"
    /\ out = <<>>
    /\ requests = <<>>
    /\ data = Unset
    /\ movies = <<>>
    /\ idx = 1
    /\ call = NoCall
    /\ proc = Dispatching("telegram_bot")
    /\ formatted = NoFormat
    /\ message_id = Null

\* The application takes the next update and runs the handler registered for
\* it.  Nothing is kept from the update before: the handlers hold no state.
Receive ==
    /\ proc.state = "dispatching"
    /\ pc \in {"idle", "done", "raised"}
    /\ \E u \in Updates :
        /\ update' = u
        /\ handler' = setup_handlers(u)
    /\ pc' = "begin"
    /\ out' = <<>>
    /\ requests' = <<>>
    /\ data' = Unset
    /\ movies' = <<>>
    /\ idx' = 1
    /\ message_id' = Null
    /\ UNCHANGED <<call, proc, formatted>>

start ==
    /\ handler = "start" /\ pc = "begin"
    /\ \E ok \in BOOLEAN :
        /\ out' = Append(out, send_message(update.chat, welcome_text, "", Keyboard, ok))
        /\ pc' = Finish(ok)
    /\ UNCHANGED <<update, handler, requests, data, movies, idx, call>>
    /\ UNCHANGED <<proc, formatted, message_id>>

help_command ==
    /\ handler = "help_command" /\ pc = "begin"
    /\ \E ok \in BOOLEAN :
        /\ out' = Append(out, send_message(update.chat, help_text, "HTML", <<>>, ok))
        /\ pc' = Finish(ok)
    /\ UNCHANGED <<update, handler, requests, data, movies, idx, call>>
    /\ UNCHANGED <<proc, formatted, message_id>>

\* query.answer(), then the branch on query.data.  The listing handlers are
\* awaited in place: button_handler does nothing after they return.
button_handler ==
    /\ handler = "button_handler" /\ pc = "begin"
    /\ \E ok \in BOOLEAN :
        /\ out' = Append(out, answer(update.chat, ok))
        /\ IF ~ok THEN pc' = "raised" /\ UNCHANGED handler
           ELSE CASE update.name = "latest" ->
                       handler' = "send_latest_movies" /\ pc' = "begin"
                  [] update.name = "trending" ->
                       handler' = "send_trending_movies" /\ pc' = "begin"
                  [] update.name = "upcoming" ->
                       handler' = "send_upcoming_movies" /\ pc' = "begin"
                  [] update.name = "search" ->
                       pc' = "usage" /\ UNCHANGED handler
                  [] OTHER ->
                       pc' = "done" /\ UNCHANGED handler
    /\ UNCHANGED <<update, requests, data, movies, idx, call>>
    /\ UNCHANGED <<proc, formatted, message_id>>

button_handler_search ==
    /\ handler = "button_handler" /\ pc = "usage"
    /\ \E ok \in BOOLEAN :
        /\ out' = Append(out, send_message(update.chat, search_usage_text, "", <<>>, ok))
        /\ pc' = Finish(ok)
    /\ UNCHANGED <<update, handler, requests, data, movies, idx, call>>
    /\ UNCHANGED <<proc, formatted, message_id>>

\* send_latest_movies up to its typing indicator: the callback query is
\* answered (again) when there is one, and the chat is that of the query's
\* message or of the command's message.
send_latest_movies_begin ==
    /\ handler = "send_latest_movies" /\ pc = "begin"
    /\ IF HasCallbackQuery(update)
       THEN \E ok \in BOOLEAN :
               /\ out' = Append(out, answer(update.chat, ok))
               /\ pc' = IF ok THEN "typing" ELSE "raised"
               /\ message_id' = IF ok /\ proc.impl = "Bot"
                                THEN ToString(MessageId(update)) ELSE message_id
       ELSE /\ pc' = "typing"
            /\ UNCHANGED <<out, message_id>>
    /\ UNCHANGED <<update, handler, requests, data, movies, idx, call>>
    /\ UNCHANGED <<proc, formatted>>

\* send_trending_movies and send_upcoming_movies call query.answer() without
\* the test: for a typed command update.callback_query is None and the call
\* raises AttributeError before anything is sent.
send_trending_movies_begin ==
    /\ handler = "send_trending_movies" /\ pc = "begin"
    /\ IF HasCallbackQuery(update)
       THEN \E ok \in BOOLEAN :
               /\ out' = Append(out, answer(update.chat, ok))
               /\ pc' = IF ok THEN "typing" ELSE "raised"
       ELSE /\ pc' = "raised"
            /\ UNCHANGED out
    /\ UNCHANGED <<update, handler, requests, data, movies, idx, call>>
    /\ UNCHANGED <<proc, formatted, message_id>>

send_upcoming_movies_begin ==
    /\ handler = "send_upcoming_movies" /\ pc = "begin"
    /\ IF HasCallbackQuery(update)
       THEN \E ok \in BOOLEAN :
               /\ out' = Append(out, answer(update.chat, ok))
               /\ pc' = IF ok THEN "typing" ELSE "raised"
       ELSE /\ pc' = "raised"
            /\ UNCHANGED out
    /\ UNCHANGED <<update, handler, requests, data, movies, idx, call>>
    /\ UNCHANGED <<proc, formatted, message_id>>

\* await context.bot.send_chat_action(chat_id, action='typing'): not guarded
\* by a try, so a failure leaves the handler.
list_typing ==
    /\ handler \in ListHandlers /\ pc = "typing"
    /\ \E ok \in BOOLEAN :
        /\ out' = Append(out, send_chat_action(update.chat, ok))
        /\ pc' = IF ok THEN "fetch" ELSE "raised"
    /\ UNCHANGED <<update, handler, requests, data, movies, idx, call>>
    /\ UNCHANGED <<proc, formatted, message_id>>

\* data = self.get_movies(...); the failure test; movies = data['results'][:5]
list_fetch ==
    /\ handler \in ListHandlers /\ pc = "fetch"
    /\ requests' = Append(requests, get_movies_request(Endpoint(handler), Params(handler, update)))
    /\ \E resp \in Responses : \E o \in get_movies_outcomes(resp) :
        IF o.raise
        THEN pc' = "raised" /\ UNCHANGED <<data, movies>>
        ELSE /\ data' = o.value
             /\ IF fetch_failed(o.value)
                THEN pc' = "error" /\ UNCHANGED movies
                ELSE IF "results" \notin DOMAIN o.value.json
                THEN pc' = "raised" /\ UNCHANGED movies   \* KeyError
                ELSE /\ movies' = select_movies(o.value.json.results)
                     /\ pc' = LoopPc(movies', 1)
    /\ idx' = 1
    /\ UNCHANGED <<update, handler, out, call>>
    /\ UNCHANGED <<proc, formatted, message_id>>

send_error_message ==
    /\ handler \in ListHandlers /\ pc = "error"
    /\ \E ok \in BOOLEAN :
        /\ out' = Append(out, send_message(update.chat, error_text, "", <<>>, ok))
        /\ pc' = Finish(ok)
    /\ UNCHANGED <<update, handler, requests, data, movies, idx, call>>
    /\ UNCHANGED <<proc, formatted, message_id>>

\* One record of the for loop up to its first send: the photo with the
\* message as caption when there is a poster URL, the text otherwise.
deliver_m ==
    /\ pc = "loop"
    /\ LET m == format_movie_message(movies[idx])
       IN  \E ok \in BOOLEAN :
            IF m.poster_url # Null
            THEN /\ out' = Append(out, send_photo(update.chat, m.poster_url, m.message, ok))
                 /\ pc' = IF ok THEN LoopPc(movies, idx + 1) ELSE "raised"
                 /\ idx' = IF ok THEN idx + 1 ELSE idx
            ELSE /\ out' = Append(out, send_message(update.chat, m.message, "HTML", <<>>, ok))
                 /\ pc' = IF ok THEN LoopPc(movies, idx + 1) ELSE "raised"
                 /\ idx' = IF ok THEN idx + 1 ELSE idx
    /\ UNCHANGED <<update, handler, requests, data, movies, call>>
    /\ UNCHANGED <<proc, formatted, message_id>>

deliver ==
    /\ pc = "loop"
    /\ LET m == format_movie_message(movies[idx])
       IN  \E ok \in BOOLEAN :
            IF m.poster_url # Null
            THEN /\ out' = Append(out, send_photo(update.chat, m.poster_url, m.message, ok))
                 /\ pc' = IF ok THEN LoopPc(movies, idx + 1) ELSE "fallback"
                 /\ idx' = IF ok THEN idx + 1 ELSE idx
            ELSE /\ out' = Append(out, send_message(update.chat, m.message, "HTML", <<>>, ok))
                 /\ pc' = IF ok THEN LoopPc(movies, idx + 1) ELSE "raised"
                 /\ idx' = IF ok THEN idx + 1 ELSE idx
    /\ UNCHANGED <<update, handler, requests, data, movies, call>>
    /\ UNCHANGED <<proc, formatted, message_id>>

\* except Exception: the same message as plain text
deliver_fallback ==
    /\ pc = "fallback"
    /\ LET m == format_movie_message(movies[idx])
       IN  \E ok \in BOOLEAN :
            /\ out' = Append(out, send_message(update.chat, m.message, "HTML", <<>>, ok))
            /\ pc' = IF ok THEN LoopPc(movies, idx + 1) ELSE "raised"
            /\ idx' = IF ok THEN idx + 1 ELSE idx
    /\ UNCHANGED <<update, handler, requests, data, movies, call>>
    /\ UNCHANGED <<proc, formatted, message_id>>

\* search_movie up to its first await: the prompt when there are no
\* arguments, the typing indicator otherwise
search_movie_begin ==
    /\ handler = "search_movie" /\ pc = "begin"
    /\ \E ok \in BOOLEAN :
        IF no_args(update.args)
        THEN /\ out' = Append(out, send_message(update.chat, search_prompt_text, "", <<>>, ok))
             /\ pc' = Finish(ok)
        ELSE /\ out' = Append(out, send_chat_action(update.chat, ok))
             /\ pc' = IF ok THEN "fetch" ELSE "raised"
    /\ UNCHANGED <<update, handler, requests, data, movies, idx, call>>
    /\ UNCHANGED <<proc, formatted, message_id>>

\* data = self.get_movies("search/movie", {'query': movie_name}); one test
\* covers the failed call, the payload without results and the empty list
search_movie_fetch ==
    /\ handler = "search_movie" /\ pc = "fetch"
    /\ requests' = Append(requests, get_movies_request(Endpoint(handler), Params(handler, update)))
    /\ \E resp \in Responses : \E o \in get_movies_outcomes(resp) :
        IF o.raise
        THEN pc' = "raised" /\ UNCHANGED <<data, movies>>
        ELSE /\ data' = o.value
             /\ IF search_failed(o.value)
                THEN pc' = "notfound" /\ UNCHANGED movies
                ELSE /\ movies' = <<first_result(o.value.json.results)>>
                     /\ pc' = "loop"
    /\ idx' = 1
    /\ UNCHANGED <<update, handler, out, call>>
    /\ UNCHANGED <<proc, formatted, message_id>>

search_movie_not_found ==
    /\ handler = "search_movie" /\ pc = "notfound"
    /\ \E ok \in BOOLEAN :
        /\ out' = Append(out, send_message(update.chat, not_found_text(Join(update.args)), "", <<>>, ok))
        /\ pc' = Finish(ok)
    /\ UNCHANGED <<update, handler, requests, data, movies, idx, call>>
    /\ UNCHANGED <<proc, formatted, message_id>>

\* The catalog client on its own: get_movies called with any endpoint and any
\* caller params.
Endpoints == {"movie/now_playing", "trending/movie/week", "movie/upcoming", "search/movie"}

ParamValues(k) ==
    CASE k = "api_key"  -> {"caller-key"}
      [] k = "language" -> {"fr-FR"}
      [] k = "page"     -> {"1", "2"}
      [] k = "query"    -> {"Dune", "Dune Two"}

ParamKeys == {"api_key", "language", "page", "query"}

CallerParams ==
    UNION {{f \in [K -> UNION {ParamValues(k) : k \in K}] : \A k \in K : f[k] \in ParamValues(k)} :
             K \in SUBSET ParamKeys}

InitCatalog ==
    /\ update = NoUpdate
    /\ handler = "get_movies"
    /\ pc = "call"
    /\ out = <<>>
    /\ requests = <<>>
    /\ data = Unset
    /\ movies = <<>>
    /\ idx = 1
    /\ call \in {[endpoint |-> e, params |-> p] : e \in Endpoints, p \in CallerParams}
    /\ proc = Dispatching("telegram_bot")
    /\ formatted = NoFormat
    /\ message_id = Null

get_movies ==
    /\ handler = "get_movies" /\ pc = "call"
    /\ requests' = Append(requests, get_movies_request(call.endpoint, call.params))
    /\ \E resp \in Responses : \E o \in get_movies_outcomes(resp) :
        IF o.raise
        THEN pc' = "raised" /\ UNCHANGED data
        ELSE pc' = "returned" /\ data' = o.value
    /\ UNCHANGED <<update, handler, out, movies, idx, call>>
    /\ UNCHANGED <<proc, formatted, message_id>>

(***************************************************************************)
(* The formatter called directly, on records whose overview is absent,     *)
(* null, or a string of a length around the truncation limit.              *)
(***************************************************************************)
Block == "0123456789"

RECURSIVE Blocks(_)
Blocks(k) == IF k = 0 THEN "" ELSE Block \o Blocks(k - 1)

\* a text of n characters; the character at position i is the digit i - 1 mod 10
Text(n) == SubSeq(Blocks((n \div 10) + 1), 1, n)

OverviewLengths == {0, 1, 26, 399, 400, 401, 402, 403, 800}

FormatOverviews ==
    {<<>>, [overview |-> Null]} \cup {[overview |-> Text(n)] : n \in OverviewLengths}

FormatInputs ==
    {o @@ t @@ r @@ pp :
        o \in FormatOverviews,
        t \in {<<>>, [title |-> "Dune"]},
        r \in {<<>>, [release_date |-> "2024-03-01", vote_average |-> "7.5",
                      popularity |-> "88.1"]},
        pp \in {<<>>} \cup {[poster_path |-> x] : x \in PosterChoices}}

InitFormat ==
    /\ update = NoUpdate
    /\ handler = ""
    /\ pc = "format"
    /\ out = <<>>
    /\ requests = <<>>
    /\ data = Unset
    /\ movies = <<>>
    /\ idx = 1
    /\ call \in {[movie |-> m] : m \in FormatInputs}
    /\ proc \in {Dispatching(im) : im \in Implementations}
    /\ formatted = NoFormat
    /\ message_id = Null

\* one call of format_movie_message(call.movie)
format_movie_message_call ==
    /\ pc = "format"
    /\ IF format_raises(call.movie)
       THEN pc' = "raised" /\ UNCHANGED formatted
       ELSE pc' = "returned" /\ formatted' = format_movie_message(call.movie)
    /\ UNCHANGED <<update, handler, out, requests, data, movies, idx, call,
                   proc, message_id>>

(***************************************************************************)
(* Startup.  Bot.py is started through main; app.py is imported by the     *)
(* WSGI server and answers HTTP requests.  Each reads its credentials from *)
(* the environment: a variable is unset, set to the empty string, or set.  *)
(***************************************************************************)
EntryPoints == {"Bot", "app"}
EnvValues(v) == {Null, "", v}

Starting(entry, bot_token, key) ==
    [entry |-> entry, impl |-> IF entry = "Bot" THEN "Bot" ELSE "telegram_bot",
     BOT_TOKEN |-> bot_token, TMDB_API_KEY |-> key, state |-> "start",
     response |-> ""]

InitStartup ==
    /\ update = NoUpdate
    /\ handler = ""
    /\ pc = "idle"
    /\ out = <<>>
    /\ requests = <<>>
    /\ data = Unset
    /\ movies = <<>>
    /\ idx = 1
    /\ call = NoCall
    /\ proc \in {Starting(e, t, k) : e \in EntryPoints, t \in EnvValues("bot-token"),
                                     k \in EnvValues(tmdb_api_key)}
    /\ formatted = NoFormat
    /\ message_id = Null

\* Bot.py main: without both credentials it logs and returns; with both it
\* builds the application, registers the handlers and polls.
main ==
    /\ proc.entry = "Bot" /\ proc.state = "start"
    /\ proc' = [proc EXCEPT !.state =
                    IF ~Truthy(proc.BOT_TOKEN) \/ ~Truthy(proc.TMDB_API_KEY)
                    THEN "exited" ELSE "dispatching"]
    /\ UNCHANGED <<update, handler, pc, out, requests, data, movies, idx, call,
                   formatted, message_id>>

\* app.py at import: the builder refuses a missing bot token (InvalidToken,
\* the import fails); TMDB_API_KEY is not looked at.  The application is
\* built and the handlers registered, but it is never initialized or started:
\* the process serves HTTP only.
app_init ==
    /\ proc.entry = "app" /\ proc.state = "start"
    /\ proc' = [proc EXCEPT !.state =
                    IF ~Truthy(proc.BOT_TOKEN) THEN "crashed" ELSE "serving"]
    /\ UNCHANGED <<update, handler, pc, out, requests, data, movies, idx, call,
                   formatted, message_id>>

\* GET / : the liveness page
home ==
    /\ proc.state = "serving"
    /\ proc' = [proc EXCEPT !.response = "200"]
    /\ UNCHANGED <<update, handler, pc, out, requests, data, movies, idx, call,
                   formatted, message_id>>

\* POST /webhook : the name Update is not imported, so de_json raises
\* NameError for every body; the except clause logs it and answers 500.
\* Nothing reaches the update queue.
webhook ==
    /\ proc.state = "serving"
    /\ \E u \in Updates : proc' = [proc EXCEPT !.response = "500"]
    /\ UNCHANGED <<update, handler, pc, out, requests, data, movies, idx, call,
                   formatted, message_id>>

Next ==
    \/ Receive
    \/ start
    \/ help_command
    \/ button_handler
    \/ button_handler_search
    \/ send_latest_movies_begin
    \/ send_trending_movies_begin
    \/ send_upcoming_movies_begin
    \/ list_typing
    \/ list_fetch
    \/ send_error_message
    \/ deliver
    \/ deliver_fallback
    \/ search_movie_begin
    \/ search_movie_fetch
    \/ search_movie_not_found

Spec == Init /\ [][Next]_vars

NextCatalog == get_movies

SpecCatalog == InitCatalog /\ [][NextCatalog]_vars

\* Either implementation, dispatching: the handlers of Bot.py and of
\* telegram_bot.py differ in their string literals and in message_id only.
InitBoth ==
    /\ update = NoUpdate
    /\ handler = ""
    /\ pc = "idle"
    /\ out = <<>>
    /\ requests = <<>>
    /\ data = Unset
    /\ movies = <<>>
    /\ idx = 1
    /\ call = NoCall
    /\ proc \in {Dispatching(im) : im \in Implementations}
    /\ formatted = NoFormat
    /\ message_id = Null

SpecBoth == InitBoth /\ [][Next]_vars

NextFormat == format_movie_message_call

SpecFormat == InitFormat /\ [][NextFormat]_vars

NextStartup == main \/ app_init \/ home \/ webhook \/ Next

SpecStartup == InitStartup /\ [][NextStartup]_vars

(***************************************************************************)
(* Vocabulary of the properties                                            *)
(***************************************************************************)
\* the outbound messages attempted: text sends and photo sends
Sent(log) == SelectSeq(log, LAMBDA e : e.op \in {"send_message", "send_photo"})

\* the replies emitted: a text send, or a photo send that went through (a
\* failed photo send is replaced by its text fallback)
Replies(log) ==
    SelectSeq(log, LAMBDA e : e.op = "send_message" \/ (e.op = "send_photo" /\ e.ok))

AllOk(log) == \A i \in 1..Len(log) : log[i].ok

Terminated == pc \in {"done", "raised"}

\* get_movies has returned
Fetched == "none" \in DOMAIN data

\* it returned None, or a payload without the 'results' key
FetchFailure == Fetched /\ (data.none \/ "results" \notin DOMAIN data.json)

\* it returned a payload with a results list
FetchSuccess == Fetched /\ ~data.none /\ "results" \in DOMAIN data.json

ListNames == {"latest", "trending", "upcoming"}

IsErrorMessage(e) ==
    e.op = "send_message" /\ e.text = error_text /\ e.chat = update.chat

\* reply e is the formatting of record movie
IsMovieReply(e, movie) ==
    /\ e.chat = update.chat
    /\ e.text = format_message(movie)
    /\ \/ e.op = "send_photo" /\ e.photo = format_poster_url(movie)
       \/ e.op = "send_message"

(***************************************************************************)
(* C1: a latest, trending or upcoming button tap whose catalog call        *)
(* returned None or a payload without 'results' sends exactly one outbound *)
(* message, the fetch-failure text, and no movie reply: nothing is sent    *)
(* before the error message and the handler ends with it.                  *)
(***************************************************************************)
C1_FetchFailureOneErrorMessage ==
    (update.kind = "callback" /\ update.name \in ListNames /\ FetchFailure) =>
        \/ pc = "error" /\ Sent(out) = <<>>
        \/ /\ Terminated
           /\ Len(Sent(out)) = 1
           /\ IsErrorMessage(Sent(out)[1])

C1_Witness ==
    /\ update.kind = "callback" /\ update.name = "trending"
    /\ Fetched /\ ~data.none /\ "results" \notin DOMAIN data.json
    /\ pc = "done"
    /\ Len(Sent(out)) = 1 /\ Sent(out)[1].text = error_text

(***************************************************************************)
(* C2 (as claimed): a search with a query whose catalog call failed, or    *)
(* whose payload has no results list, ends with exactly one reply, the     *)
(* generic fetch-failure message; "No movies found" is sent only after a   *)
(* successful call with an empty results list.                             *)
(***************************************************************************)
C2_SearchFailureGenericError ==
    (update.kind = "command" /\ update.name = "search" /\ update.args # <<>>
        /\ FetchFailure /\ Terminated) =>
        /\ Len(Sent(out)) = 1
        /\ IsErrorMessage(Sent(out)[1])

(***************************************************************************)
(* C3: a listing handler whose catalog call returned n results, with every *)
(* platform call succeeding, replies with the formatting of results        *)
(* 1..min(5, n) in that order, and with nothing else: reply i is result i, *)
(* there are never more than min(5, n) replies, and exactly that many once *)
(* the handler has returned.                                               *)
(***************************************************************************)
C3_FirstFiveInOrder ==
    (handler \in ListHandlers /\ FetchSuccess /\ AllOk(out)) =>
        LET results == data.json.results
            n == Min(5, Len(results))
            replies == Replies(out)
        IN  /\ Len(replies) <= n
            /\ \A i \in 1..Len(replies) : IsMovieReply(replies[i], results[i])
            /\ Sent(out) = replies
            /\ pc # "raised"
            /\ pc = "done" => Len(replies) = n

C3_Witness ==
    /\ handler = "send_latest_movies" /\ FetchSuccess /\ AllOk(out)
    /\ Len(data.json.results) = 8
    /\ pc = "done"
    /\ Len(Replies(out)) = 5
    /\ Replies(out)[5].text = format_message(data.json.results[5])

(***************************************************************************)
(* C4: the deliveries of the selected records, read off the log.  For each *)
(* record in turn: with a poster URL one photo send with the message as    *)
(* caption, followed, only when it failed, by one text send of the same    *)
(* message; without one, a single text send.  A failed text send is the    *)
(* last call of the handler.                                               *)
(***************************************************************************)
RECURSIVE Delivers(_, _)
Delivers(ms, log) ==
    IF log = <<>> THEN TRUE
    ELSE IF ms = <<>> THEN FALSE
    ELSE LET m == format_movie_message(ms[1])
             text(ok) == send_message(update.chat, m.message, "HTML", <<>>, ok)
         IN  IF m.poster_url # Null
             THEN /\ log[1] = send_photo(update.chat, m.poster_url, m.message, log[1].ok)
                  /\ IF log[1].ok THEN Delivers(Tail(ms), Tail(log))
                     ELSE \/ Len(log) = 1
                          \/ /\ log[2] = text(log[2].ok)
                             /\ IF log[2].ok
                                THEN Delivers(Tail(ms), SubSeq(log, 3, Len(log)))
                                ELSE Len(log) = 2
             ELSE /\ log[1] = text(log[1].ok)
                  /\ IF log[1].ok THEN Delivers(Tail(ms), Tail(log)) ELSE Len(log) = 1

\* the sends that got through
Delivered(log) == SelectSeq(log, LAMBDA e : e.ok)

TextFailed(log) == \E i \in 1..Len(log) : log[i].op = "send_message" /\ ~log[i].ok

(***************************************************************************)
(* C4: every selected record gets exactly one delivered reply as long as   *)
(* plain-text delivery succeeds: the log of sends follows Delivers, a      *)
(* failed photo send never ends the handler (only a failed text send       *)
(* does), and a handler that returned without a failed text send has       *)
(* delivered exactly one reply per selected record.                        *)
(***************************************************************************)
C4_OneReplyPerRecord ==
    (movies # <<>>) =>
        /\ Delivers(movies, Sent(out))
        /\ pc = "raised" => TextFailed(Sent(out))
        /\ (pc = "done" /\ ~TextFailed(Sent(out))) =>
              /\ Len(Delivered(Sent(out))) = Len(movies)
              /\ \A i \in 1..Len(movies) :
                    IsMovieReply(Delivered(Sent(out))[i], movies[i])

\* a photo send failed for the first record, its text fallback and the
\* replies for two more records followed
C4_Witness ==
    /\ Len(movies) >= 3 /\ pc = "done"
    /\ Len(Sent(out)) >= 4
    /\ Sent(out)[1].op = "send_photo" /\ ~Sent(out)[1].ok
    /\ Sent(out)[2].op = "send_message" /\ Sent(out)[2].ok
    /\ Sent(out)[2].text = Sent(out)[1].text
    /\ Len(Delivered(Sent(out))) = Len(movies)

(***************************************************************************)
(* C5 (as claimed): /latest, /trending and /upcoming behave as their       *)
(* buttons do.  With every platform call succeeding, the typed command and *)
(* the button tap alike end having issued the one catalog query of the     *)
(* listing and having sent the replies the catalog outcome calls for: the  *)
(* error message after a failed fetch, the first five results otherwise.   *)
(***************************************************************************)
ListHandlerOf(name) ==
    CASE name = "latest"   -> "send_latest_movies"
      [] name = "trending" -> "send_trending_movies"
      [] name = "upcoming" -> "send_upcoming_movies"

C5_CommandSameAsButton ==
    (update.kind \in {"command", "callback"} /\ update.name \in ListNames
        /\ Terminated /\ AllOk(out)) =>
        LET h == ListHandlerOf(update.name)
        IN  /\ requests = <<get_movies_request(Endpoint(h), Params(h, update))>>
            /\ FetchFailure =>
                  Len(Sent(out)) = 1 /\ IsErrorMessage(Sent(out)[1])
            /\ FetchSuccess =>
                  /\ Len(Sent(out)) = Min(5, Len(data.json.results))
                  /\ \A i \in 1..Len(Sent(out)) :
                        IsMovieReply(Sent(out)[i], data.json.results[i])

(***************************************************************************)
(* C6: the intents that need no catalog data                               *)
(***************************************************************************)
NoCatalogIntent ==
    \/ update.kind = "command" /\ update.name \in {"start", "help"}
    \/ update.kind = "command" /\ update.name = "search" /\ update.args = <<>>
    \/ update.kind = "callback" /\ update.name = "search"

NoCatalogReplyText ==
    CASE update.kind = "callback" -> search_usage_text
      [] update.name = "start"    -> welcome_text
      [] update.name = "help"     -> help_text
      [] update.name = "search"   -> search_prompt_text

AnswerFailed == \E i \in 1..Len(out) : out[i].op = "answer" /\ ~out[i].ok

C7_SearchReply ==
    (update.kind = "command" /\ update.name = "search" /\ update.args # <<>>
        /\ FetchSuccess) =>
        LET results == data.json.results
            q == Join(update.args)
        IN  /\ update.args = <<"Dune", "Two">> => q = "Dune Two"
            /\ IF results = <<>>
               THEN \/ pc = "notfound" /\ Sent(out) = <<>>
                    \/ /\ Terminated
                       /\ Len(Sent(out)) = 1
                       /\ Sent(out)[1].op = "send_message"
                       /\ Sent(out)[1].chat = update.chat
                       /\ Sent(out)[1].text = "No movies found for '" \o q \o "'"
               ELSE /\ Len(Replies(out)) <= 1
                    /\ \A i \in 1..Len(Replies(out)) :
                          IsMovieReply(Replies(out)[i], results[1])
                    /\ Terminated => Len(Replies(out)) = 1

C7_Witness ==
    /\ update.kind = "command" /\ update.name = "search"
    /\ update.args = <<"Dune", "Two">>
    /\ FetchSuccess /\ Len(data.json.results) >= 3
    /\ requests[1].params["query"] = "Dune Two"
    /\ pc = "done"
    /\ Len(Replies(out)) = 1
    /\ Replies(out)[1].text = format_message(data.json.results[1])

(***************************************************************************)
(* C8 (as claimed): whatever params the caller passes, every request       *)
(* get_movies sends carries the configured credential as 'api_key'.        *)
(***************************************************************************)
C8_CredentialNeverOverridden ==
    \A i \in 1..Len(requests) : requests[i].params["api_key"] = tmdb_api_key

(***************************************************************************)
(* C9 (as claimed): a failed typing indicator is swallowed: the handler    *)
(* goes on, and ends having issued its catalog query.                      *)
(***************************************************************************)
TypingFailed == \E i \in 1..Len(out) : out[i].op = "send_chat_action" /\ ~out[i].ok

C9_TypingFailureSwallowed ==
    TypingFailed =>
        /\ Terminated => Len(requests) = 1
        /\ (pc = "raised") => (\E i \in 1..Len(out) : out[i].op # "send_chat_action" /\ ~out[i].ok)

(***************************************************************************)
(* C10 (as claimed): the handling of a latest, trending or upcoming event, *)
(* or of a search with a query, issues exactly one catalog request.  The   *)
(* callback acknowledgements are taken to have succeeded.                  *)
(***************************************************************************)
DataBearing ==
    \/ update.kind \in {"command", "callback"} /\ update.name \in ListNames
    \/ update.kind = "command" /\ update.name = "search" /\ update.args # <<>>

C10_ExactlyOneRequest ==
    (DataBearing /\ Terminated /\ ~AnswerFailed) => Len(requests) = 1

(***************************************************************************)
(* C11: if the bot credential or the catalog credential is absent at       *)
(* startup, startup is fatal and nothing is dispatched: the process ends   *)
(* without serving, no handler runs, no catalog query and no reply is      *)
(* produced, under both entry points.                                      *)
(* Does not hold: app.py never looks at TMDB_API_KEY and serves without it.*)
(***************************************************************************)
CredentialAbsent == proc.BOT_TOKEN = Null \/ proc.TMDB_API_KEY = Null

Started == proc.state # "start"

C11_AbsentCredentialFatal ==
    (CredentialAbsent /\ Started) =>
        /\ proc.state \in {"exited", "crashed"}
        /\ handler = "" /\ requests = <<>> /\ out = <<>>

\* The part that does hold: without a credential no handler runs, no catalog
\* query is made and no reply is produced.
C11_NoDispatchWithoutCredential ==
    CredentialAbsent => (handler = "" /\ requests = <<>> /\ out = <<>>)

(***************************************************************************)
(* C12 (as claimed): each event is handled to completion -- all of its     *)
(* replies emitted, or its error reply emitted -- before the next event    *)
(* begins to be processed; replies of two events are never interleaved and *)
(* no handler leaves state behind.                                         *)
(* Does not hold: a handler that raises ends its event with replies        *)
(* missing and no error reply, and the next event is processed.            *)
(***************************************************************************)
ErrorReplyEmitted == \E i \in 1..Len(out) : IsErrorMessage(out[i])

\* every reply the event calls for has been emitted
AllRepliesEmitted ==
    CASE handler \in ListHandlers ->
           FetchSuccess /\ Len(Replies(out)) = Min(5, Len(data.json.results))
      [] handler = "search_movie" /\ update.args # <<>> ->
           Fetched /\ Len(Replies(out)) = 1
      [] handler = "button_handler" /\ update.name \in ListNames -> FALSE
      [] handler = "button_handler" /\ update.name # "search" -> TRUE
      [] OTHER -> Len(Replies(out)) = 1

HandledToCompletion == AllRepliesEmitted \/ ErrorReplyEmitted

\* the application takes the next update
NextEventBegins == pc # "begin" /\ pc' = "begin"

C12_HandledToCompletionBeforeNext ==
    [][(NextEventBegins /\ handler # "") => HandledToCompletion]_vars

\* The part that does hold: the next event begins only once the handler of
\* the event before has returned or raised, it starts from nothing the event
\* before left, and every call of a handler targets the chat of its own event.
C12_NextAfterHandlerEnded ==
    [][NextEventBegins =>
        /\ pc \in {"idle", "done", "raised"}
        /\ out' = <<>> /\ requests' = <<>> /\ data' = Unset
        /\ movies' = <<>> /\ idx' = 1 /\ message_id' = Null]_vars

C12_RepliesOfOneEvent == \A i \in 1..Len(out) : out[i].chat = update.chat

(***************************************************************************)
(* C13: the truncation of the overview is exact at the boundary.  For an   *)
(* overview of length L > 400 the rendered overview is its first 400       *)
(* characters followed by "..." and nothing more; for L <= 400, L = 400    *)
(* included, it is the overview unchanged, without the marker; an absent   *)
(* overview renders "No description available."; and the formatter does    *)
(* not raise for a record with absent fields.  The rendered overview is    *)
(* what the message holds between the "Description:" line and the closing  *)
(* line of the template.                                                   *)
(***************************************************************************)
OverviewAbsent == "overview" \notin DOMAIN call.movie

\* what the claim says is rendered for the record of the call
ExpectedOverview ==
    IF OverviewAbsent THEN "No description available."
    ELSE IF Len(call.movie.overview) > 400
         THEN SubSeq(call.movie.overview, 1, 400) \o "..."
         ELSE call.movie.overview

\* the template around the overview: the message of the same record with an
\* empty overview, up to its closing "\n        "
TemplateHead ==
    LET blank == format_message_of(proc.impl, [overview |-> ""] @@ call.movie)
    IN  SubSeq(blank, 1, Len(blank) - 9)

RenderedOverview ==
    SubSeq(formatted.message, Len(TemplateHead) + 1, Len(formatted.message) - 9)

C13_TruncationExact ==
    /\ (pc = "raised") => (~OverviewAbsent /\ call.movie.overview = Null)
    /\ (pc = "returned") =>
          /\ formatted.message = TemplateHead \o ExpectedOverview \o "\n        "
          /\ RenderedOverview = ExpectedOverview
          /\ Len(RenderedOverview) <= 403

C13_Witness ==
    /\ pc = "returned"
    /\ ~OverviewAbsent /\ Len(call.movie.overview) = 401
    /\ Len(RenderedOverview) = 403
    /\ RenderedOverview = SubSeq(call.movie.overview, 1, 400) \o "..."
    /\ "title" \notin DOMAIN call.movie

(***************************************************************************)
(* C14 (as claimed): Bot.py's MovieBot and telegram_bot.py's MovieBot are  *)
(* observably equivalent: for every event and every outcome of the catalog *)
(* and of the platform calls they make the same calls with the same        *)
(* content.  The handlers of the two make the same calls in the same       *)
(* order, so they are equivalent exactly when every reply that the running *)
(* implementation sends has the content the split one gives to that reply. *)
(* Does not hold: the non-ASCII characters of Bot.py's literals differ.    *)
(***************************************************************************)
\* the fixed reply texts of implementation im, by the reply they are
FixedReplies(im) ==
    [welcome |-> welcome_text_of(im), help |-> help_text_of(im),
     error |-> error_text_of(im), prompt |-> search_prompt_text,
     usage |-> search_usage_text]

\* the movie records the event can reply with
ReplyRecords ==
    IF FetchSuccess THEN {data.json.results[j] : j \in 1..Len(data.json.results)}
    ELSE {}

\* reply e of the running implementation has the content the split
\* implementation gives to the same reply
SameContentAsSplit(e) ==
    \/ \E k \in DOMAIN FixedReplies(proc.impl) :
          /\ e.text = FixedReplies(proc.impl)[k]
          /\ e.text = FixedReplies("telegram_bot")[k]
    \/ update.kind = "command" /\ e.text = not_found_text(Join(update.args))
    \/ \E movie \in ReplyRecords :
          /\ e.text = format_message_of(proc.impl, movie)
          /\ e.text = format_message_of("telegram_bot", movie)

C14_SameContent ==
    \A i \in 1..Len(out) :
        (out[i].op \in {"send_message", "send_photo"}) => SameContentAsSplit(out[i])

\* The part that does hold: message_id is kept by Bot.py's send_latest_movies
\* after a button tap only, and no call recorded in `out` carries it.
C14_MessageIdUnused ==
    /\ (message_id # Null) =>
          (proc.impl = "Bot" /\ handler = "send_latest_movies" /\ HasCallbackQuery(update))
    /\ \A i \in 1..Len(out) :
          DOMAIN out[i] = {"op", "chat", "text", "photo", "parse_mode", "markup", "ok"}

====
